---- MODULE Spec2Model ----
(***************************************************************************)
(* State-machine model of the endless runner in src/app.js: the per-frame  *)
(* simulation (animate), the session functions (startGame, resetGame,      *)
(* endGame, stopAudio), the obstacle spawner, the collision / near-miss    *)
(* detector and the keyboard handlers.                                     *)
(*                                                                         *)
(* Numbers.  The program computes with IEEE doubles; the model uses fixed  *)
(* point integers:                                                         *)
(*   lengths, positions, speeds  : 1/1000 of a world unit                  *)
(*   time (delta, cooldowns)     : milliseconds                            *)
(*   boost fuel                  : 1/1000 of a fuel unit                   *)
(*   Math.random()               : r/1000 with r in 0..999                 *)
(*   score                       : the integer itself                      *)
(* Products with 0.9, 0.2, 0.01 ... are computed on integers; where the    *)
(* exact result is not a multiple of the unit it is truncated, as noted at *)
(* the definition.                                                         *)
(***************************************************************************)
EXTENDS Integers, Sequences, FiniteSets, TLC

\* ---------------------------------------------------------------- bounds
\* rAF callbacks the browser delivers in one explored run
MaxFrames == 2
\* key events delivered in one explored run
MaxKeys == 1
\* clicks on the start button in one explored run
MaxStarts == 1

\* ------------------------------------------------------ program constants
maxSpeed == 10000
acceleration == 40
deceleration == 50
baseMinSpeed == 1000
laneWidth == 4000
roadSegmentLength == 50000
visibleSegments == 25
COLLISION_SHAKE_DURATION == 500
boostMaxFuel == 100000
boostConsumeRate == 35
boostRegenRate == 10
NEAR_MISS_THRESHOLD == 2000
carWidth == 1900
carDepth == 3800
carStartZ == 5000
spawnDistanceAhead == 280000
initialSpawnDistance == 60000
nearMissBonus == 50
nearMissCooldownReset == 500
boostActivationFuel == 10000
targetSpeedStep == 500
initialTargetSpeed == 2000
initialMinSpeed == 1000
buildingCleanupDistance == 100000
minIntervalBase == 90000
minIntervalFloor == 50000
maxIntervalBase == 180000
maxIntervalFloor == 100000
buildingMinWidth == 3500
buildingWidthRange == 1500
singleObstacleChance == 600
driftThreshold == 100

\* visibleSegments / 2 * roadSegmentLength, i.e. 12.5 segments
HalfWindow == (roadSegmentLength * visibleSegments) \div 2

\* maxSpeed * boostSpeedMultiplier (1.5)
boostMaxSpeed == (maxSpeed * 3) \div 2

\* acceleration * 1.8
boostAcceleration == (acceleration * 18) \div 10

\* ---------------------------------------------------------------- helpers
Abs(x) == IF x < 0 THEN -x ELSE x

Min(a, b) == IF a < b THEN a ELSE b

Max(a, b) == IF a > b THEN a ELSE b

\* v * num / den on integers, truncated toward zero
Scale(v, num, den) ==
  IF v >= 0 THEN (v * num) \div den ELSE -(((-v) * num) \div den)

\* Array.prototype.sort((a, b) => b.position.z - a.position.z) on the
\* segment positions
Descending(a, b) == a > b

SortDesc(zs) == SortSeq(zs, Descending)

\* Array.prototype.splice(i, 1) with a 1-based index
RemoveAt(seq, i) == SubSeq(seq, 1, i - 1) \o SubSeq(seq, i + 1, Len(seq))

\* --------------------------------------------------- state after loading
\* The module-level declarations of app.js (lines 58-116) and the browser
\* objects the program drives: the requestAnimationFrame queue (pending,
\* rafSeq), THREE.Clock (clockRunning) and the Tone.js context (toneRunning,
\* toneStarting = Tone.start() promises not yet settled).  crashSound stands
\* for the four sound objects, which setupAudio creates together.
\* undisposed counts the entities taken out of the scene whose geometries
\* and materials were not disposed.  last
\* records which handler ran last, the lane, boost flag, fuel, speed, spawn
\* threshold (nextSpawn), farthest road segment and state of the boost synth
\* (sounding) it found,
\* what its spawner and collision check did (rnd: the Math.random() draws
\* its spawn consumed), what its stopAudio call
\* found (stopBoost, stopDrift: the loops active on entry) and did
\* (boostReleases, driftReleases: the triggerRelease calls), and the calls
\* it made on the sound objects, whether its coverage step found the road
\* empty (seeded) and how many segments it retired (triggers; misfires: a triggerAttack on the
\* boost synth while it sounds, a triggerRelease while it does not).
\* boostSounding is the state of the boost synth itself: on after
\* triggerAttack, off after triggerRelease.
\* the draws of a frame that does not spawn
NoRnd == [count |-> 0, pick |-> << 0, 0 >>, width |-> << 0, 0 >>, gap |-> 0]

NoLast ==
  [op |-> "load", key |-> "", checked |-> FALSE, hit |-> FALSE,
   bonuses |-> 0, spawned |-> 0, elapsed |-> 0,
   lane |-> 0, boosting |-> FALSE, fuel |-> boostMaxFuel,
   nextSpawn |-> initialSpawnDistance, speed |-> 0, farthest |-> 0,
   rnd |-> NoRnd, sounding |-> FALSE, seeded |-> FALSE, retired |-> 0,
   stopBoost |-> FALSE, stopDrift |-> FALSE,
   boostReleases |-> 0, driftReleases |-> 0,
   triggers |-> 0, misfires |-> 0]

Boot ==
  [car |-> [live |-> FALSE, x |-> 0, z |-> 0],
   buildings |-> << >>,
   roadSegments |-> << >>,
   speed |-> 0,
   targetSpeed |-> initialTargetSpeed,
   minSpeed |-> initialMinSpeed,
   lane |-> 0,
   distanceTraveled |-> 0,
   nextObstacleSpawnDistance |-> initialSpawnDistance,
   collisionShakeTime |-> 0,
   delta |-> 0,
   gameOver |-> FALSE,
   animationFrameId |-> 0,
   score |-> 0,
   isBoosting |-> FALSE,
   boostFuel |-> boostMaxFuel,
   nearMissCooldown |-> 0,
   crashSound |-> FALSE,
   isBoostSoundActive |-> FALSE,
   isDriftSynthActive |-> FALSE,
   boostSounding |-> FALSE,
   pending |-> {},
   rafSeq |-> 0,
   clockRunning |-> FALSE,
   toneRunning |-> FALSE,
   toneStarting |-> 0,
   sinceBonus |-> nearMissCooldownReset,
   undisposed |-> 0,
   last |-> NoLast]

\* ------------------------------------------------------------ sound calls
\* boostSound.triggerAttack()
triggerAttack(s) ==
  [s EXCEPT !.boostSounding = TRUE,
            !.last.triggers = @ + 1,
            !.last.misfires = @ + (IF s.boostSounding THEN 1 ELSE 0)]

\* boostSound.triggerRelease()
triggerRelease(s) ==
  [s EXCEPT !.boostSounding = FALSE,
            !.last.triggers = @ + 1,
            !.last.misfires = @ + (IF s.boostSounding THEN 0 ELSE 1)]

\* a call on one of the other sound objects: driftSynth.triggerAttack(),
\* driftSynth.triggerRelease(), crashSound.triggerAttackRelease(),
\* nearMissSound.start()
soundCall(s) == [s EXCEPT !.last.triggers = @ + 1]

\* ------------------------------------------------------ session functions
\* variant: only the boost loop is released
stopAudioBoostOnly(s) ==
  LET s0 == [s EXCEPT !.last.stopBoost = s.isBoostSoundActive,
                      !.last.stopDrift = s.isDriftSynthActive]
  IN IF s0.crashSound /\ s0.isBoostSoundActive
     THEN [triggerRelease(s0) EXCEPT !.isBoostSoundActive = FALSE,
                                     !.last.boostReleases = @ + 1]
     ELSE s0

\* lines 232-242
stopAudio(s) ==
  LET s0 == [s EXCEPT !.last.stopBoost = s.isBoostSoundActive,
                      !.last.stopDrift = s.isDriftSynthActive]
      s1 == IF s0.crashSound /\ s0.isBoostSoundActive
            THEN [triggerRelease(s0) EXCEPT !.isBoostSoundActive = FALSE,
                                            !.last.boostReleases = @ + 1]
            ELSE s0
  IN IF s1.crashSound /\ s1.isDriftSynthActive
     THEN [soundCall(s1) EXCEPT !.isDriftSynthActive = FALSE,
                                !.last.driftReleases = @ + 1]
     ELSE s1

createRoadSegment(s, zPosition) ==
  [s EXCEPT !.roadSegments = Append(@, zPosition)]

\* the loop of resetGame that re-creates the road, i = from .. visibleSegments-1
RECURSIVE SeedRoad(_, _)
SeedRoad(s, i) ==
  IF i >= visibleSegments THEN s
  ELSE SeedRoad(createRoadSegment(s, 0 - (i * roadSegmentLength - HalfWindow)),
                i + 1)

\* variant: the old road is not emptied before the new one is seeded
resetGameKeepsRoad(s) ==
  LET s1 == [s EXCEPT !.buildings = << >>,
                      !.speed = 0,
                      !.targetSpeed = s.minSpeed,
                      !.lane = 0,
                      !.distanceTraveled = 0,
                      !.nextObstacleSpawnDistance = initialSpawnDistance,
                      !.gameOver = FALSE,
                      !.score = 0,
                      !.boostFuel = boostMaxFuel,
                      !.isBoosting = FALSE]
      s3 == SeedRoad(stopAudio(s1), 0)
  IN [s3 EXCEPT !.roadSegments = SortDesc(@),
                !.car = [live |-> TRUE, x |-> 0, z |-> carStartZ]]

\* line 247: if (car) scene.remove(car) -- the group leaves the scene, the
\* geometries and materials of its meshes are not disposed
removeCar(s) ==
  IF s.car.live
  THEN [s EXCEPT !.car.live = FALSE, !.undisposed = @ + 1] ELSE s

\* variant: the distance counter is carried over into the new session
resetGameKeepsDistance(s) ==
  LET s1 == [removeCar(s) EXCEPT !.buildings = << >>,
                      !.roadSegments = << >>,
                      !.speed = 0,
                      !.targetSpeed = s.minSpeed,
                      !.lane = 0,
                      !.nextObstacleSpawnDistance = initialSpawnDistance,
                      !.gameOver = FALSE,
                      !.score = 0,
                      !.boostFuel = boostMaxFuel,
                      !.isBoosting = FALSE]
      s2 == stopAudio(s1)
      s3 == SeedRoad(s2, 0)
      s4 == [s3 EXCEPT !.roadSegments = SortDesc(@)]
  IN [s4 EXCEPT !.car = [live |-> TRUE, x |-> s4.lane * laneWidth,
                         z |-> carStartZ]]

\* lines 249-268: every building and road segment (with its lane lines)
\* is removed from the scene and disposed, then the lists are emptied
resetGame(s) ==
  LET s1 == [removeCar(s) EXCEPT !.buildings = << >>,
                      !.roadSegments = << >>,
                      !.speed = 0,
                      !.targetSpeed = s.minSpeed,
                      !.lane = 0,
                      !.distanceTraveled = 0,
                      !.nextObstacleSpawnDistance = initialSpawnDistance,
                      !.gameOver = FALSE,
                      !.score = 0,
                      !.boostFuel = boostMaxFuel,
                      !.isBoosting = FALSE]
      s2 == stopAudio(s1)
      s3 == SeedRoad(s2, 0)
      s4 == [s3 EXCEPT !.roadSegments = SortDesc(@)]
  IN [s4 EXCEPT !.car = [live |-> TRUE, x |-> s4.lane * laneWidth,
                         z |-> carStartZ]]

cancelAnimationFrame(s, id) == [s EXCEPT !.pending = @ \ {id}]

\* variant: the end of a session also takes the car, the obstacles and the
\* road out of the scene
endGameTearsDown(s) ==
  LET s1 == [s EXCEPT !.gameOver = TRUE,
                      !.car.live = FALSE,
                      !.buildings = << >>,
                      !.roadSegments = << >>]
      s2 == IF s1.animationFrameId # 0
            THEN [cancelAnimationFrame(s1, s1.animationFrameId)
                    EXCEPT !.animationFrameId = 0]
            ELSE s1
  IN stopAudio([s2 EXCEPT !.collisionShakeTime = COLLISION_SHAKE_DURATION])

\* variant: the game-over flag is raised but the queued frame is kept
endGameKeepsFrame(s) ==
  stopAudio([s EXCEPT !.gameOver = TRUE,
                      !.collisionShakeTime = COLLISION_SHAKE_DURATION])

endGame(s) ==
  LET s1 == [s EXCEPT !.gameOver = TRUE]
      s2 == IF s1.animationFrameId # 0
            THEN [cancelAnimationFrame(s1, s1.animationFrameId)
                    EXCEPT !.animationFrameId = 0]
            ELSE s1
      crashed == IF s2.crashSound THEN soundCall(s2) ELSE s2
      s3 == [crashed EXCEPT !.collisionShakeTime = COLLISION_SHAKE_DURATION]
  IN stopAudio(s3)

\* ------------------------------------------------------- obstacle spawner
\* The while loop of spawnBuildingObstacle: draws[k] is the k-th
\* Math.random() of the loop; splice removes the chosen index.
\* variant: the chosen lane is read but not removed from the list
TakeLaneKept(availableLaneIndices, randomIndex) == availableLaneIndices

\* what availableLaneIndices.splice(randomIndex, 1) leaves in the list
TakeLane(availableLaneIndices, randomIndex) ==
  RemoveAt(availableLaneIndices, randomIndex + 1)

RECURSIVE PickLanes(_, _, _, _)
PickLanes(availableLaneIndices, blockedLaneIndices, obstacleCount, draws) ==
  IF Len(blockedLaneIndices) < obstacleCount /\ Len(availableLaneIndices) > 0
  THEN LET randomIndex == (Head(draws) * Len(availableLaneIndices)) \div 1000
           chosenIndex == availableLaneIndices[randomIndex + 1]
       IN PickLanes(TakeLane(availableLaneIndices, randomIndex),
                    Append(blockedLaneIndices, chosenIndex),
                    obstacleCount, Tail(draws))
  ELSE blockedLaneIndices

\* Math.random() < 0.6 ? 1 : 2
ObstacleCount(r) == IF r < singleObstacleChance THEN 1 ELSE 2

\* 3.5 + Math.random() * 1.5, truncated to the unit
BuildingWidth(r) == buildingMinWidth + (r * buildingWidthRange) \div 1000

\* One building of the forEach: lanePositions[laneIndex] * laneWidth, with
\* lanePositions = [-1, 0, 1]; depth = width.  Height and colour are not read
\* by the simulation and are left out.  awards counts the near-miss bonuses
\* the building has triggered; born is the id of the frame whose spawn made
\* it, filled in by spawnBuildingObstacle.
NewBuilding(laneIndex, zPosition, r) ==
  [x |-> (laneIndex - 1) * laneWidth, z |-> zPosition,
   width |-> BuildingWidth(r), depth |-> BuildingWidth(r), awards |-> 0,
   born |-> 0]

\* rnd.count, rnd.pick (two draws), rnd.width (two draws): the Math.random()
\* results the call consumes
spawnBuildingObstacle(s, zPosition, rnd) ==
  LET obstacleCount == ObstacleCount(rnd.count)
      blocked == PickLanes(<< 0, 1, 2 >>, << >>, obstacleCount, rnd.pick)
      made == [k \in 1..Len(blocked) |->
                 [NewBuilding(blocked[k], zPosition, rnd.width[k])
                    EXCEPT !.born = s.rafSeq]]
  IN [s EXCEPT !.buildings = @ \o made,
               !.last.spawned = Len(blocked)]

\* --------------------------------------------------------- road management
\* variant: the comparisons of lines 779 and 793 the other way round, so
\* that the segments ahead of the threshold are the ones retired
cleanupOldRoadSegmentsAhead(s) ==
  IF ~s.car.live THEN s
  ELSE LET cleanupThresholdZ ==
             s.car.z + HalfWindow + 4 * roadSegmentLength
           Keep(z) == z > cleanupThresholdZ
           kept == SelectSeq(s.roadSegments, Keep)
       IN [s EXCEPT !.roadSegments = SortDesc(kept),
                    !.last.retired = Len(s.roadSegments) - Len(kept)]

\* lines 772-796; last.retired counts the segments taken out
cleanupOldRoadSegments(s) ==
  IF ~s.car.live THEN s
  ELSE LET cleanupThresholdZ ==
             s.car.z + HalfWindow + 4 * roadSegmentLength
           Keep(z) == z <= cleanupThresholdZ
           kept == SelectSeq(s.roadSegments, Keep)
       IN [s EXCEPT !.roadSegments = SortDesc(kept),
                    !.last.retired = Len(s.roadSegments) - Len(kept)]

\* lines 1010-1025 of animate
\* variant: the new segment is placed after the first segment of the list
\* instead of the last
ExtendRoadFromFirst(s) ==
  IF Len(s.roadSegments) > 0
  THEN IF s.car.z < s.roadSegments[1] + HalfWindow
       THEN LET s1 == createRoadSegment(s, s.roadSegments[1] - roadSegmentLength)
            IN [s1 EXCEPT !.roadSegments = SortDesc(@)]
       ELSE s
  ELSE LET s1 == createRoadSegment(s, s.car.z - HalfWindow)
       IN [s1 EXCEPT !.roadSegments = SortDesc(@), !.last.seeded = TRUE]

\* variant: the new segment is placed two segment lengths beyond the
\* farthest one
ExtendRoadByTwo(s) ==
  IF Len(s.roadSegments) > 0
  THEN LET farthestRoadZ == s.roadSegments[Len(s.roadSegments)]
       IN IF s.car.z < farthestRoadZ + HalfWindow
          THEN LET s1 == createRoadSegment(s, farthestRoadZ
                                               - 2 * roadSegmentLength)
               IN [s1 EXCEPT !.roadSegments = SortDesc(@)]
          ELSE s
  ELSE LET s1 == createRoadSegment(s, s.car.z - HalfWindow)
       IN [s1 EXCEPT !.roadSegments = SortDesc(@), !.last.seeded = TRUE]

ExtendRoad(s) ==
  IF Len(s.roadSegments) > 0
  THEN LET farthestRoadZ == s.roadSegments[Len(s.roadSegments)]
       IN IF s.car.z < farthestRoadZ + HalfWindow
          THEN LET s1 == createRoadSegment(s, farthestRoadZ - roadSegmentLength)
               IN [s1 EXCEPT !.roadSegments = SortDesc(@)]
          ELSE s
  ELSE LET s1 == createRoadSegment(s, s.car.z - HalfWindow)
       IN [s1 EXCEPT !.roadSegments = SortDesc(@), !.last.seeded = TRUE]

\* --------------------------------------------- collision and near misses
\* Math.abs(carX - buildingX) * 2 < (carWidth + buildingWidth) * 0.9
collisionX(s, b) == Abs(s.car.x - b.x) * 20 < (carWidth + b.width) * 9

collisionZ(s, b) == Abs(s.car.z - b.z) * 20 < (carDepth + b.depth) * 9

\* Math.abs(carX - buildingX) < carWidth/2 + buildingWidth/2 + NEAR_MISS_THRESHOLD
nearX(s, b) ==
  Abs(s.car.x - b.x) * 2 < carWidth + b.width + 2 * NEAR_MISS_THRESHOLD

sideProximityZ(s, b) == Abs(s.car.z - b.z) * 2 < carDepth + b.depth

\* variant: the boost test of line 840 inverted
IsFatalOnlyBoosting(s, b) == collisionX(s, b) /\ collisionZ(s, b) /\ s.isBoosting

\* variant: the test of line 840 without its !isBoosting conjunct
IsFatalWhileBoosting(s, b) == collisionX(s, b) /\ collisionZ(s, b)

\* the game-over test of line 840
IsFatal(s, b) == collisionX(s, b) /\ collisionZ(s, b) /\ ~s.isBoosting

\* the near-miss test of lines 849-859
IsNearMiss(s, b) ==
  /\ s.nearMissCooldown <= 0
  /\ nearX(s, b) /\ sideProximityZ(s, b)
  /\ ~(collisionX(s, b) /\ collisionZ(s, b))

\* variant: the bonus scaled by the frame's time step
AwardNearMissTimeScaled(s) ==
  [s EXCEPT !.score = @ + (nearMissBonus * s.delta) \div 1000,
            !.nearMissCooldown = nearMissCooldownReset,
            !.last.bonuses = @ + 1]

\* variant: the bonus without the cooldown restart of line 863
AwardNearMissNoCooldown(s) ==
  [s EXCEPT !.score = @ + nearMissBonus, !.last.bonuses = @ + 1]

\* variant: the bonus subtracted instead of added
AwardNearMissNegated(s) ==
  [s EXCEPT !.score = @ - nearMissBonus,
            !.nearMissCooldown = nearMissCooldownReset,
            !.last.bonuses = @ + 1]

\* lines 861-863; last.bonuses counts the executions
AwardNearMiss(s) ==
  [s EXCEPT !.score = @ + nearMissBonus,
            !.nearMissCooldown = nearMissCooldownReset,
            !.last.bonuses = @ + 1]

\* the bonus of building i is noted on the building
Credit(s, i) == [s EXCEPT !.buildings[i].awards = @ + 1]

\* the for loop of lines 812-884, i running down from buildings.length - 1
\* (here: Len .. 1); a fatal collision returns at once
RECURSIVE CheckLoop(_, _)
CheckLoop(s, i) ==
  IF i < 1 THEN s
  ELSE LET building == s.buildings[i]
       IN IF building.z > s.car.z + buildingCleanupDistance
          THEN CheckLoop([s EXCEPT !.buildings = RemoveAt(@, i)], i - 1)
          ELSE IF IsFatal(s, building)
               THEN [endGame(s) EXCEPT !.last.hit = TRUE]
               ELSE IF IsNearMiss(s, building)
                    THEN CheckLoop(Credit(AwardNearMiss(s), i), i - 1)
                    ELSE CheckLoop(s, i - 1)

\* line 810
TickCooldown(s) ==
  IF s.nearMissCooldown > 0
  THEN [s EXCEPT !.nearMissCooldown = @ - s.delta] ELSE s

\* lines 887-893: the cue of a frame that awarded a bonus and did not
\* return from the loop; the call is counted whether or not the player is
\* still playing the previous cue
NearMissCue(s) ==
  IF s.last.bonuses > 0 /\ ~s.last.hit /\ s.crashSound
  THEN soundCall(s) ELSE s

checkCollisionsAndNearMisses(s) ==
  IF ~s.car.live \/ s.gameOver THEN s
  ELSE LET s1 == [TickCooldown(s) EXCEPT !.last.checked = TRUE]
       IN NearMissCue(CheckLoop(s1, Len(s1.buildings)))

\* ------------------------------- the detector of the earlier variant
\* checkCollisionsAndNearMisses of src/unnamed/part_000 (lines 580-655).
\* Its overlap and proximity expressions (lines 614-615, 626-628), its
\* bonus (lines 632-633), its cooldown tick (lines 591-593), its cue
\* (lines 649-654) and its endGame (lines 402-426) read as those of app.js
\* and are the operators above.
\* line 617: if (collisionX && collisionZ)
IsFatalEarlier(s, b) == collisionX(s, b) /\ collisionZ(s, b)

\* lines 624-630: if (nearMissCooldown <= 0) ... if (nearX && sideProximityZ)
IsNearMissEarlier(s, b) ==
  /\ s.nearMissCooldown <= 0
  /\ nearX(s, b) /\ sideProximityZ(s, b)

\* the for loop of lines 595-646
RECURSIVE CheckLoopEarlier(_, _)
CheckLoopEarlier(s, i) ==
  IF i < 1 THEN s
  ELSE LET building == s.buildings[i]
       IN IF building.z > s.car.z + buildingCleanupDistance
          THEN CheckLoopEarlier([s EXCEPT !.buildings = RemoveAt(@, i)], i - 1)
          ELSE IF IsFatalEarlier(s, building)
               THEN [endGame(s) EXCEPT !.last.hit = TRUE]
               ELSE IF IsNearMissEarlier(s, building)
                    THEN CheckLoopEarlier(Credit(AwardNearMiss(s), i), i - 1)
                    ELSE CheckLoopEarlier(s, i - 1)

checkCollisionsAndNearMissesEarlier(s) ==
  IF ~s.car.live \/ s.gameOver THEN s
  ELSE LET s1 == [TickCooldown(s) EXCEPT !.last.checked = TRUE]
       IN NearMissCue(CheckLoopEarlier(s1, Len(s1.buildings)))

\* ------------------------------------------------------------- game loop
\* Math.floor(Math.pow(speed, 2) * delta * scoreMultiplier), scoreMultiplier
\* = 2: speed^2 * delta / 5e8 in the model's units, exact, computed in two
\* parts to stay within 32-bit integers.
ScoreGain(spd, dt) ==
  LET sq == spd * spd
  IN ((sq \div 500000) * dt + ((sq % 500000) * dt) \div 500000) \div 1000

\* variant: the floor is raised, the target speed is left behind
UpdateMinSpeedOnly(s) ==
  [s EXCEPT !.minSpeed = baseMinSpeed + s.distanceTraveled \div 10000]

\* lines 912-914; distanceTraveled * speedIncreaseRate (0.0001), truncated
UpdateMinSpeed(s) ==
  LET floorSpeed == baseMinSpeed + s.distanceTraveled \div 10000
  IN [s EXCEPT !.minSpeed = floorSpeed,
               !.targetSpeed = Max(@, floorSpeed)]

\* variant: the tank drains while idle instead of refilling
BoostTickIdleDrain(s) ==
  IF s.isBoosting
  THEN LET s1 == [s EXCEPT !.boostFuel = @ - boostConsumeRate * s.delta]
       IN IF s1.boostFuel <= 0
          THEN [s1 EXCEPT !.isBoosting = FALSE, !.boostFuel = 0]
          ELSE s1
  ELSE [s EXCEPT !.boostFuel = Max(0, @ - boostRegenRate * s.delta)]

\* variant: an empty tank is clamped to 0 but the boost stays on
BoostTickStaysOn(s) ==
  IF s.isBoosting
  THEN [s EXCEPT !.boostFuel = Max(0, @ - boostConsumeRate * s.delta)]
  ELSE [s EXCEPT !.boostFuel = Min(boostMaxFuel, @ + boostRegenRate * s.delta)]

\* variant: regeneration without the Math.min clamp of line 937
BoostTickUnclamped(s) ==
  IF s.isBoosting
  THEN LET s1 == [s EXCEPT !.boostFuel = @ - boostConsumeRate * s.delta]
       IN IF s1.boostFuel <= 0
          THEN [s1 EXCEPT !.isBoosting = FALSE, !.boostFuel = 0]
          ELSE s1
  ELSE [s EXCEPT !.boostFuel = @ + boostRegenRate * s.delta]

\* lines 924-944
\* lines 929-932 and 940-943: if (boostSound && isBoostSoundActive)
BoostSoundOff(s) ==
  IF s.crashSound /\ s.isBoostSoundActive
  THEN [triggerRelease(s) EXCEPT !.isBoostSoundActive = FALSE] ELSE s

\* variant: the loop is started in every frame that boosts, whether or not
\* it is marked active
BoostSoundOnEveryFrame(s) ==
  IF s.crashSound /\ s.boostFuel > 0
  THEN [triggerAttack(s) EXCEPT !.isBoostSoundActive = TRUE] ELSE s

\* lines 934-937
BoostSoundOn(s) ==
  IF ~s.isBoostSoundActive /\ s.crashSound /\ s.boostFuel > 0
  THEN [triggerAttack(s) EXCEPT !.isBoostSoundActive = TRUE] ELSE s

\* variant: without the sound objects the boost neither burns nor refills
BoostTickNeedsSound(s) ==
  IF ~s.crashSound THEN s
  ELSE IF s.isBoosting
       THEN LET s1 == [s EXCEPT !.boostFuel = @ - boostConsumeRate * s.delta]
                s2 == IF s1.boostFuel <= 0
                      THEN BoostSoundOff([s1 EXCEPT !.isBoosting = FALSE,
                                                    !.boostFuel = 0])
                      ELSE s1
            IN BoostSoundOn(s2)
       ELSE BoostSoundOff(
              [s EXCEPT !.boostFuel =
                          Min(boostMaxFuel, @ + boostRegenRate * s.delta)])

BoostTick(s) ==
  IF s.isBoosting
  THEN LET s1 == [s EXCEPT !.boostFuel = @ - boostConsumeRate * s.delta]
           s2 == IF s1.boostFuel <= 0
                 THEN BoostSoundOff([s1 EXCEPT !.isBoosting = FALSE,
                                               !.boostFuel = 0])
                 ELSE s1
       IN BoostSoundOn(s2)
  ELSE BoostSoundOff(
         [s EXCEPT !.boostFuel =
                     Min(boostMaxFuel, @ + boostRegenRate * s.delta)])

\* variant: without the final clamp of line 963
UpdateSpeedNoFinalClamp(s, currentMaxSpeed, currentAcceleration) ==
  [s EXCEPT !.speed =
     IF s.speed < s.targetSpeed
     THEN Min(s.speed + currentAcceleration, currentMaxSpeed)
     ELSE IF s.speed > s.targetSpeed
          THEN Max(s.speed - deceleration, s.minSpeed)
          ELSE s.speed]

\* lines 958-963
UpdateSpeed(s, currentMaxSpeed, currentAcceleration) ==
  LET v == IF s.speed < s.targetSpeed
           THEN Min(s.speed + currentAcceleration, currentMaxSpeed)
           ELSE IF s.speed > s.targetSpeed
                THEN Max(s.speed - deceleration, s.minSpeed)
                ELSE s.speed
  IN [s EXCEPT !.speed = Min(v, currentMaxSpeed)]

\* variant: the distance counter follows the car's z, which decreases
MoveCarCountingDown(s) ==
  [s EXCEPT !.car.x = @ + Scale(s.lane * laneWidth - @, 2, 10),
            !.car.z = @ - s.speed,
            !.distanceTraveled = @ - s.speed]

\* lines 972-990: easing toward the lane (20% of the remaining distance,
\* truncated), advance, drift sound flag
MoveCar(s) ==
  LET targetX == s.lane * laneWidth
      oldX == s.car.x
      newX == oldX + Scale(targetX - oldX, 2, 10)
      isCurrentlySwitchingLanes ==
        Abs(newX - targetX) > driftThreshold /\ Abs(oldX - targetX) > driftThreshold
      moved == [s EXCEPT !.car.x = newX,
                         !.car.z = @ - s.speed,
                         !.distanceTraveled = @ + s.speed]
  IN IF s.crashSound /\ isCurrentlySwitchingLanes # s.isDriftSynthActive
     THEN [soundCall(moved) EXCEPT
             !.isDriftSynthActive = isCurrentlySwitchingLanes]
     ELSE moved

\* variant: the floor of the shortest interval a tenth of what it is, below
\* the advance of one frame at top speed
currentMinIntervalShort(distance) ==
  Max(minIntervalFloor \div 10, minIntervalBase - distance \div 100)

\* variant: the shortest interval without its floor
currentMinIntervalUnfloored(distance) == minIntervalBase - distance \div 100

\* line 1027: Math.max(50, 90 - distanceTraveled * 0.01), truncated
currentMinInterval(distance) ==
  Max(minIntervalFloor, minIntervalBase - distance \div 100)

\* line 1028: Math.max(100, 180 - distanceTraveled * 0.02), truncated
currentMaxInterval(distance) ==
  Max(maxIntervalFloor, maxIntervalBase - distance \div 50)

\* variant: the threshold moves on by the drawn amount in every frame,
\* whether it spawns or not
SpawnStepDrawsEveryFrame(s, rnd) ==
  LET distanceToAdd ==
        currentMinInterval(s.distanceTraveled)
          + (rnd.gap * (currentMaxInterval(s.distanceTraveled)
                          - currentMinInterval(s.distanceTraveled)))
              \div 1000
      s1 == IF s.distanceTraveled > s.nextObstacleSpawnDistance
            THEN [spawnBuildingObstacle(s, s.car.z - spawnDistanceAhead, rnd)
                    EXCEPT !.last.rnd = rnd]
            ELSE s
  IN [s1 EXCEPT !.nextObstacleSpawnDistance = @ + distanceToAdd]

\* variant: the obstacles are placed spawnDistanceAhead beyond the start
\* line instead of beyond the car
SpawnStepAheadOfStart(s, rnd) ==
  LET spawnTriggerZ == carStartZ - spawnDistanceAhead
  IN IF s.distanceTraveled > s.nextObstacleSpawnDistance
     THEN LET s1 == spawnBuildingObstacle(s, spawnTriggerZ, rnd)
              distanceToAdd ==
                currentMinInterval(s.distanceTraveled)
                  + (rnd.gap * (currentMaxInterval(s.distanceTraveled)
                                  - currentMinInterval(s.distanceTraveled)))
                      \div 1000
          IN [s1 EXCEPT !.nextObstacleSpawnDistance = @ + distanceToAdd,
                        !.last.rnd = rnd]
     ELSE s

\* lines 1027-1037; rnd.gap is the Math.random() of distanceToAdd
SpawnStep(s, rnd) ==
  LET spawnTriggerZ == s.car.z - spawnDistanceAhead
  IN IF s.distanceTraveled > s.nextObstacleSpawnDistance
     THEN LET s1 == spawnBuildingObstacle(s, spawnTriggerZ, rnd)
              distanceToAdd ==
                currentMinInterval(s.distanceTraveled)
                  + (rnd.gap * (currentMaxInterval(s.distanceTraveled)
                                  - currentMinInterval(s.distanceTraveled)))
                      \div 1000
          IN [s1 EXCEPT !.nextObstacleSpawnDistance = @ + distanceToAdd,
                        !.last.rnd = rnd]
     ELSE s

\* lines 1060-1068
ShakeTick(s) ==
  IF s.collisionShakeTime > 0
  THEN [s EXCEPT !.collisionShakeTime = @ - s.delta] ELSE s

\* requestAnimationFrame(animate): a fresh id, the callback queued
requestAnimationFrame(s) ==
  [s EXCEPT !.rafSeq = @ + 1,
            !.pending = @ \cup {s.rafSeq + 1},
            !.animationFrameId = s.rafSeq + 1]

\* clock.getDelta(): 0 on the call that starts the clock, then the time
\* elapsed since the previous call
getDelta(s, dt) ==
  [s EXCEPT !.delta = IF s.clockRunning THEN dt ELSE 0,
            !.clockRunning = TRUE]

\* the body of if (car) { ... }, lines 971-1054
WithCar(s, rnd) ==
  checkCollisionsAndNearMisses(
    SpawnStep(cleanupOldRoadSegments(ExtendRoad(MoveCar(s))), rnd))

\* variant: the boost tick of lines 924-944 runs after the body of
\* if (car), that is after the collision check
animateBoostTickLast(s, dt, rnd) ==
  IF s.gameOver THEN s
  ELSE LET s1 == getDelta(requestAnimationFrame(s), dt)
           s2 == [s1 EXCEPT !.score = @ + ScoreGain(s1.speed, s1.delta)]
           s3 == UpdateMinSpeed(s2)
           currentMaxSpeed == IF s3.isBoosting THEN boostMaxSpeed ELSE maxSpeed
           currentAcceleration ==
             IF s3.isBoosting THEN boostAcceleration ELSE acceleration
           s5 == UpdateSpeed(s3, currentMaxSpeed, currentAcceleration)
           s6 == IF s5.car.live THEN WithCar(s5, rnd) ELSE s5
       IN ShakeTick(IF s6.gameOver THEN s6 ELSE BoostTick(s6))

animate(s, dt, rnd) ==
  IF s.gameOver THEN s
  ELSE LET s1 == getDelta(requestAnimationFrame(s), dt)
           s2 == [s1 EXCEPT !.score = @ + ScoreGain(s1.speed, s1.delta)]
           s3 == UpdateMinSpeed(s2)
           currentMaxSpeed == IF s3.isBoosting THEN boostMaxSpeed ELSE maxSpeed
           currentAcceleration ==
             IF s3.isBoosting THEN boostAcceleration ELSE acceleration
           s4 == BoostTick(s3)
           s5 == UpdateSpeed(s4, currentMaxSpeed, currentAcceleration)
           s6 == IF s5.car.live THEN WithCar(s5, rnd) ELSE s5
       IN ShakeTick(s6)

\* ------------------------------------------------------- audio start-up
\* setupAudio creates the sound objects
setupAudio(s) == [s EXCEPT !.crashSound = TRUE]

\* startAudioContext: Tone.start() returns a promise settled later
startAudioContext(s) == [s EXCEPT !.toneStarting = @ + 1]

\* the .then() branch: the context is running
AudioThen(s) ==
  LET s1 == [s EXCEPT !.toneStarting = @ - 1, !.toneRunning = TRUE]
  IN IF ~s1.crashSound THEN setupAudio(s1) ELSE s1

\* the .catch() branch: nothing but a diagnostic
AudioCatch(s) == [s EXCEPT !.toneStarting = @ - 1]

\* variant: the queued frame is not cancelled before the new loop starts
startGameNoCancel(s, dt, rnd) ==
  LET s2 == IF ~s.toneRunning THEN startAudioContext(s)
            ELSE IF ~s.crashSound THEN setupAudio(s) ELSE s
  IN animate(resetGame(s2), dt, rnd)

startGame(s, dt, rnd) ==
  LET s1 == IF s.animationFrameId # 0
            THEN cancelAnimationFrame(s, s.animationFrameId) ELSE s
      s2 == IF ~s1.toneRunning THEN startAudioContext(s1)
            ELSE IF ~s1.crashSound THEN setupAudio(s1) ELSE s1
  IN animate(resetGame(s2), dt, rnd)

\* --------------------------------------------------------- key handlers
Keys == {"ArrowLeft", "ArrowRight", "ArrowUp", "ArrowDown", "Shift"}

\* variant: Shift starts the boost whatever the tank holds
ShiftDownAnyFuel(s) == [s EXCEPT !.isBoosting = TRUE]

\* lines 1099-1101
ShiftDown(s) ==
  IF s.boostFuel > boostActivationFuel
  THEN [s EXCEPT !.isBoosting = TRUE] ELSE s

\* variant: ArrowLeft without the lane > -1 test
ArrowLeftUnchecked(s) == [s EXCEPT !.lane = @ - 1]

\* lines 1079-1083
ArrowLeft(s) == IF s.lane > -1 THEN [s EXCEPT !.lane = @ - 1] ELSE s

\* lines 1084-1088
ArrowRight(s) == IF s.lane < 1 THEN [s EXCEPT !.lane = @ + 1] ELSE s

\* variant: the handler without its gameOver test
keydownWhenOver(s, key) ==
  CASE key = "ArrowLeft" -> ArrowLeft(s)
    [] key = "ArrowRight" -> ArrowRight(s)
    [] key = "ArrowUp" ->
         [s EXCEPT !.targetSpeed = Min(@ + targetSpeedStep, maxSpeed)]
    [] key = "ArrowDown" ->
         [s EXCEPT !.targetSpeed = Max(@ - targetSpeedStep, s.minSpeed)]
    [] key = "Shift" -> ShiftDown(s)
    [] OTHER -> s

keydown(s, key) ==
  IF s.gameOver THEN s
  ELSE CASE key = "ArrowLeft" -> ArrowLeft(s)
         [] key = "ArrowRight" -> ArrowRight(s)
         [] key = "ArrowUp" ->
              [s EXCEPT !.targetSpeed = Min(@ + targetSpeedStep, maxSpeed)]
         [] key = "ArrowDown" ->
              [s EXCEPT !.targetSpeed = Max(@ - targetSpeedStep, s.minSpeed)]
         [] key = "Shift" -> ShiftDown(s)
         [] OTHER -> s

keyup(s, key) ==
  IF s.gameOver THEN s
  ELSE IF key = "Shift" THEN [s EXCEPT !.isBoosting = FALSE] ELSE s

\* ------------------------------------------------------------ variables
VARIABLES car, buildings, roadSegments, speed, targetSpeed, minSpeed, lane,
          distanceTraveled, nextObstacleSpawnDistance, collisionShakeTime,
          delta, gameOver, animationFrameId, score, isBoosting, boostFuel,
          nearMissCooldown, crashSound, isBoostSoundActive,
          isDriftSynthActive, boostSounding, pending, rafSeq, clockRunning,
          toneRunning, toneStarting, sinceBonus, undisposed, last,
          nFrames, nKeys, nStarts

prog == << car, buildings, roadSegments, speed, targetSpeed, minSpeed, lane,
           distanceTraveled, nextObstacleSpawnDistance, collisionShakeTime,
           delta, gameOver, animationFrameId, score, isBoosting, boostFuel,
           nearMissCooldown, crashSound, isBoostSoundActive,
           isDriftSynthActive, boostSounding, pending, rafSeq, clockRunning,
           toneRunning, toneStarting, sinceBonus, undisposed, last >>

vars == << prog, nFrames, nKeys, nStarts >>

\* the current state as the record the functions above work on
State ==
  [car |-> car, buildings |-> buildings, roadSegments |-> roadSegments,
   speed |-> speed, targetSpeed |-> targetSpeed, minSpeed |-> minSpeed,
   lane |-> lane, distanceTraveled |-> distanceTraveled,
   nextObstacleSpawnDistance |-> nextObstacleSpawnDistance,
   collisionShakeTime |-> collisionShakeTime, delta |-> delta,
   gameOver |-> gameOver, animationFrameId |-> animationFrameId,
   score |-> score, isBoosting |-> isBoosting, boostFuel |-> boostFuel,
   nearMissCooldown |-> nearMissCooldown, crashSound |-> crashSound,
   isBoostSoundActive |-> isBoostSoundActive,
   isDriftSynthActive |-> isDriftSynthActive,
   boostSounding |-> boostSounding, pending |-> pending,
   rafSeq |-> rafSeq, clockRunning |-> clockRunning,
   toneRunning |-> toneRunning, toneStarting |-> toneStarting,
   sinceBonus |-> sinceBonus, undisposed |-> undisposed, last |-> last]

Load(s) ==
  /\ car' = s.car
  /\ buildings' = s.buildings
  /\ roadSegments' = s.roadSegments
  /\ speed' = s.speed
  /\ targetSpeed' = s.targetSpeed
  /\ minSpeed' = s.minSpeed
  /\ lane' = s.lane
  /\ distanceTraveled' = s.distanceTraveled
  /\ nextObstacleSpawnDistance' = s.nextObstacleSpawnDistance
  /\ collisionShakeTime' = s.collisionShakeTime
  /\ delta' = s.delta
  /\ gameOver' = s.gameOver
  /\ animationFrameId' = s.animationFrameId
  /\ score' = s.score
  /\ isBoosting' = s.isBoosting
  /\ boostFuel' = s.boostFuel
  /\ nearMissCooldown' = s.nearMissCooldown
  /\ crashSound' = s.crashSound
  /\ isBoostSoundActive' = s.isBoostSoundActive
  /\ isDriftSynthActive' = s.isDriftSynthActive
  /\ boostSounding' = s.boostSounding
  /\ pending' = s.pending
  /\ rafSeq' = s.rafSeq
  /\ clockRunning' = s.clockRunning
  /\ toneRunning' = s.toneRunning
  /\ toneStarting' = s.toneStarting
  /\ sinceBonus' = s.sinceBonus
  /\ undisposed' = s.undisposed
  /\ last' = s.last

\* ------------------------------------------------------------- inputs
\* frame time steps clock.getDelta() may return, in ms: a 60 Hz frame and a
\* slow frame longer than the near-miss cooldown
Deltas == {16, 600}

\* Math.random() values: every outcome of the lane draws
RandVals == {0, 400, 800}

\* Math.random() values for the obstacle count: below 0.6 and not
CountVals == {0, 800}

\* Math.random() values for widths and spawn gaps: smallest and largest
EdgeVals == {0, 999}

\* the draws of one spawn; a call that makes one obstacle does not draw
\* for a second
Rnds ==
  { r \in [count : CountVals, pick : RandVals \X RandVals,
           width : EdgeVals \X EdgeVals, gap : EdgeVals] :
      ObstacleCount(r.count) = 1 => (r.pick[2] = 0 /\ r.width[2] = 0) }

\* a frame calls Math.random() for the simulation only when it spawns, and
\* it cannot spawn unless the threshold is within one frame's advance
MaySpawn(s) ==
  s.distanceTraveled + boostMaxSpeed > s.nextObstacleSpawnDistance

RndsFor(s) == IF MaySpawn(s) THEN Rnds ELSE {NoRnd}

\* ------------------------------------------------------- whole handlers
Began(s, op, key) ==
  [s EXCEPT !.last = [NoLast EXCEPT !.op = op, !.key = key,
                                    !.lane = s.lane,
                                    !.boosting = s.isBoosting,
                                    !.fuel = s.boostFuel,
                                    !.nextSpawn =
                                       s.nextObstacleSpawnDistance,
                                    !.speed = s.speed,
                                    !.sounding = s.boostSounding,
                                    !.farthest =
                                       IF s.roadSegments = << >> THEN 0
                                       ELSE s.roadSegments[
                                              Len(s.roadSegments)]]]

\* time since the last near-miss bonus, summed over the frames' deltas
Track(before, after) ==
  LET e == Min(nearMissCooldownReset, before.sinceBonus + after.delta)
  IN [after EXCEPT !.last.elapsed = e,
                   !.sinceBonus = IF after.last.bonuses > 0 THEN 0 ELSE e]

\* the browser runs the queued callback id
FrameStep(s, id, dt, rnd) ==
  LET s0 == Began([s EXCEPT !.pending = @ \ {id}], "frame", "")
  IN IF s0.gameOver THEN s0 ELSE Track(s0, animate(s0, dt, rnd))

\* a click on the start button
StartStep(s, dt) ==
  LET s0 == Began(s, "startGame", "")
  IN Track(s0, startGame(s0, dt, NoRnd))

KeyDownStep(s, key) == keydown(Began(s, "keydown", key), key)

KeyUpStep(s, key) == keyup(Began(s, "keyup", key), key)

\* ------------------------------------------------------- sessions under way
\* The explored runs start from the freshly loaded page (Boot) and from
\* sessions already under way.  A session under way is computed from Boot
\* with the handlers above: a click on start, the audio promise settling
\* (resolved if sc.audio, rejected if not), sc.ups presses of ArrowUp, one
\* press of sc.steer, then frames of 16 ms until an obstacle at lateral
\* position sc.watchX is within sc.gap ahead of the car.  The spawner's
\* draws on the way are sc.early before distance sc.armD and sc.rnd from
\* then on; Shift goes down, and stays down, once the distance reaches
\* sc.boostD.
RECURSIVE Press(_, _, _)
Press(s, key, n) ==
  IF n = 0 THEN s
  ELSE CHOOSE r \in {Press(h, key, n - 1) : h \in {KeyDownStep(s, key)}} : TRUE

Watched(s, sc) ==
  \E i \in 1..Len(s.buildings) :
    /\ s.buildings[i].x = sc.watchX
    /\ s.buildings[i].z < s.car.z
    /\ s.buildings[i].z >= s.car.z - sc.gap

\* one frame of the drive (after the Shift press, when it is due), or none
\* once the watched obstacle is near
DriveStep(s, sc) ==
  IF s.gameOver \/ (s.distanceTraveled >= sc.armD /\ Watched(s, sc))
  THEN s
  ELSE LET held == IF s.distanceTraveled >= sc.boostD
                        /\ s.boostFuel = boostMaxFuel /\ ~s.isBoosting
                   THEN KeyDownStep(s, "Shift") ELSE s
       IN FrameStep(held, held.animationFrameId, 16,
                    IF s.distanceTraveled >= sc.armD THEN sc.rnd ELSE sc.early)

\* DriveStep applied n times; the halves are evaluated one after the other
\* to keep the evaluation shallow
RECURSIVE Drive(_, _, _)
Drive(s, sc, n) ==
  IF n <= 1 THEN DriveStep(s, sc)
  ELSE CHOOSE r \in {Drive(h, sc, n - n \div 2) : h \in {Drive(s, sc, n \div 2)}} :
         TRUE

UnderWay(sc) ==
  CHOOSE r \in
    { Drive(s4, sc, sc.limit) :
        s4 \in { KeyDownStep(s3, sc.steer) :
          s3 \in { Press(s2, "ArrowUp", sc.ups) :
            s2 \in { IF sc.audio
                     THEN AudioThen(Began(s1, "audioThen", ""))
                     ELSE AudioCatch(Began(s1, "audioCatch", "")) :
                       s1 \in {StartStep(Boot, 16)} } } } } : TRUE

\* one obstacle in the middle lane, the widest gap to the next spawn
MiddleLaneRnd ==
  [count |-> 0, pick |-> << 400, 0 >>, width |-> << 0, 0 >>, gap |-> 999]

\* one obstacle in the right-hand lane, the next spawn 90 further on
RightLaneRnd ==
  [count |-> 0, pick |-> << 800, 0 >>, width |-> << 0, 0 >>, gap |-> 800]

\* two obstacles: middle lane (5 wide), then left-hand lane (4.1 wide)
MiddleAndLeftRnd ==
  [count |-> 800, pick |-> << 400, 0 >>, width |-> << 999, 400 >>, gap |-> 0]

Scenarios ==
  { \* crawling at the speed floor in the left-hand lane toward an obstacle
    \* in that lane, a second one beside it
    [ups |-> 0, steer |-> "ArrowLeft", armD |-> 0, boostD |-> 100000000,
     early |-> NoRnd, rnd |-> MiddleAndLeftRnd, watchX |-> -laneWidth,
     gap |-> 5500, audio |-> TRUE, limit |-> 600],
    \* boosting at top speed in the right-hand lane toward an obstacle in
    \* that lane, the tank nearly empty and a spawn due
    [ups |-> 18, steer |-> "ArrowRight", armD |-> 4000000, boostD |-> 2600000,
     early |-> MiddleLaneRnd, rnd |-> RightLaneRnd, watchX |-> laneWidth,
     gap |-> 25000, audio |-> FALSE, limit |-> 600] }

InitStates == {Boot} \cup {UnderWay(sc) : sc \in Scenarios}

\* -------------------------------------------------------------- actions
Init ==
  /\ \E s \in InitStates : /\ car = s.car /\ buildings = s.buildings
       /\ roadSegments = s.roadSegments /\ speed = s.speed
       /\ targetSpeed = s.targetSpeed /\ minSpeed = s.minSpeed
       /\ lane = s.lane /\ distanceTraveled = s.distanceTraveled
       /\ nextObstacleSpawnDistance = s.nextObstacleSpawnDistance
       /\ collisionShakeTime = s.collisionShakeTime /\ delta = s.delta
       /\ gameOver = s.gameOver /\ animationFrameId = s.animationFrameId
       /\ score = s.score /\ isBoosting = s.isBoosting
       /\ boostFuel = s.boostFuel /\ nearMissCooldown = s.nearMissCooldown
       /\ crashSound = s.crashSound
       /\ isBoostSoundActive = s.isBoostSoundActive
       /\ isDriftSynthActive = s.isDriftSynthActive
       /\ boostSounding = s.boostSounding /\ pending = s.pending
       /\ rafSeq = s.rafSeq /\ clockRunning = s.clockRunning
       /\ toneRunning = s.toneRunning /\ toneStarting = s.toneStarting
       /\ sinceBonus = s.sinceBonus /\ undisposed = s.undisposed
       /\ last = s.last
  /\ nFrames = 0 /\ nKeys = 0 /\ nStarts = 0

Frame ==
  /\ nFrames < MaxFrames
  /\ \E id \in pending, dt \in Deltas, rnd \in RndsFor(State) :
       Load(FrameStep(State, id, dt, rnd))
  /\ nFrames' = nFrames + 1
  /\ UNCHANGED << nKeys, nStarts >>

StartGame ==
  /\ nStarts < MaxStarts
  /\ \E dt \in Deltas : Load(StartStep(State, dt))
  /\ nStarts' = nStarts + 1
  /\ UNCHANGED << nFrames, nKeys >>

KeyDown ==
  /\ nKeys < MaxKeys
  /\ \E key \in Keys : Load(KeyDownStep(State, key))
  /\ nKeys' = nKeys + 1
  /\ UNCHANGED << nFrames, nStarts >>

KeyUp ==
  /\ nKeys < MaxKeys
  /\ Load(KeyUpStep(State, "Shift"))
  /\ nKeys' = nKeys + 1
  /\ UNCHANGED << nFrames, nStarts >>

AudioStarted ==
  /\ toneStarting > 0
  /\ Load(AudioThen(Began(State, "audioThen", "")))
  /\ UNCHANGED << nFrames, nKeys, nStarts >>

AudioFailed ==
  /\ toneStarting > 0
  /\ Load(AudioCatch(Began(State, "audioCatch", "")))
  /\ UNCHANGED << nFrames, nKeys, nStarts >>

Next ==
  \/ Frame
  \/ StartGame
  \/ KeyDown
  \/ KeyUp
  \/ AudioStarted
  \/ AudioFailed

Spec == Init /\ [][Next]_vars

\* ============================================================ properties
\* the operations that run animate(): a queued frame, and startGame, which
\* calls animate() itself
FrameOps == {"frame", "startGame"}

\* the obstacles overlapping the car on both axes under the 0.9 margin
Overlapping ==
  {i \in 1..Len(buildings) :
     collisionX(State, buildings[i]) /\ collisionZ(State, buildings[i])}

\* C1: a frame whose collision check ran with isBoosting true did not call
\* endGame from that check, whatever the car overlaps
C1_BoostNeverEnds ==
  (last.op \in FrameOps /\ last.checked /\ isBoosting)
    => (~last.hit /\ ~gameOver)

\* a frame has just checked collisions while boosting inside an obstacle
C1_Witness ==
  /\ last.op = "frame" /\ last.checked /\ isBoosting
  /\ Overlapping # {} /\ ~gameOver

\* C2: after a frame whose collision check ran without boost, an obstacle
\* still in the list and overlapping the car on both axes means the game is
\* over and no frame is scheduled
C2_OverlapEndsGame ==
  (last.op \in FrameOps /\ last.checked /\ ~isBoosting /\ car.live
     /\ Overlapping # {})
    => (gameOver /\ animationFrameId = 0)

\* a frame has just ended the game on an overlap
C2_Witness ==
  /\ last.op = "frame" /\ last.checked /\ last.hit /\ ~isBoosting
  /\ Overlapping # {} /\ gameOver /\ animationFrameId = 0

\* C3: no step other than a (re)start lowers the score
C3_ScoreMonotone == [][last'.op # "startGame" => score' >= score]_vars

\* a frame has raised the score by a near-miss bonus
C3_Witness == last.op = "frame" /\ last.bonuses > 0 /\ score >= nearMissBonus

\* C4: the boost fuel stays within 0 .. boostMaxFuel
C4_FuelInRange == 0 <= boostFuel /\ boostFuel <= boostMaxFuel

\* a frame of positive length has regenerated into the upper clamp, or
\* has burnt into the lower one
C4_Witness ==
  /\ nFrames > 0 /\ last.op = "frame" /\ delta > 0 /\ ~gameOver
  /\ \/ boostFuel = boostMaxFuel /\ ~last.boosting /\ last.fuel = boostMaxFuel
     \/ boostFuel = 0 /\ last.boosting /\ last.fuel < boostConsumeRate * delta

\* C5: the fuel goes down only in a frame that found the boost on, and up
\* only in a frame that found it off; no handler other than a frame or a
\* (re)start changes it
C5_FuelDirection ==
  last.op # "startGame" =>
    /\ boostFuel < last.fuel => (last.op = "frame" /\ last.boosting)
    /\ boostFuel > last.fuel => (last.op = "frame" /\ ~last.boosting)

\* a frame has burnt fuel with the boost on
C5_Witness ==
  /\ nFrames > 0 /\ last.op = "frame" /\ last.boosting
  /\ 0 < boostFuel /\ boostFuel < last.fuel

\* C6: isBoosting goes from false to true only in a Shift keydown that found
\* more than 10 units of fuel; a Shift keydown that found 10 or less leaves
\* isBoosting as it was
C6_ShiftStartsBoost ==
  /\ (~last.boosting /\ isBoosting) =>
        (last.op = "keydown" /\ last.key = "Shift"
           /\ last.fuel > boostActivationFuel)
  /\ (last.op = "keydown" /\ last.key = "Shift"
        /\ last.fuel <= boostActivationFuel) => isBoosting = last.boosting

\* Shift has gone down in a running session on a tank of 10 or less, the
\* boost off
C6_Witness ==
  /\ last.op = "keydown" /\ last.key = "Shift" /\ ~gameOver
  /\ last.fuel <= boostActivationFuel /\ ~last.boosting /\ ~isBoosting

\* C7: the boost is never on with an empty tank, and a frame whose
\* consumption takes the tank to 0 or below ends with the boost off and
\* exactly 0 fuel
C7_NoBoostOnEmpty ==
  /\ isBoosting => boostFuel > 0
  /\ (last.op = "frame" /\ last.checked /\ last.boosting
        /\ last.fuel - boostConsumeRate * delta <= 0)
       => (~isBoosting /\ boostFuel = 0)

\* a frame has burnt the last of the tank
C7_Witness ==
  /\ last.op = "frame" /\ last.checked /\ last.boosting
  /\ 0 < last.fuel /\ last.fuel <= boostConsumeRate * delta
  /\ ~isBoosting /\ boostFuel = 0

\* C8: the lane is -1, 0 or 1; ArrowLeft in lane -1 and ArrowRight in
\* lane 1 leave it unchanged
C8_LaneInRange ==
  /\ lane \in {-1, 0, 1}
  /\ (last.op = "keydown" /\ last.key = "ArrowLeft" /\ last.lane = -1)
       => lane = -1
  /\ (last.op = "keydown" /\ last.key = "ArrowRight" /\ last.lane = 1)
       => lane = 1

\* ArrowLeft has gone down in a running session with the car in lane -1
C8_Witness ==
  /\ last.op = "keydown" /\ last.key = "ArrowLeft" /\ ~gameOver
  /\ last.lane = -1 /\ lane = -1

\* the obstacles the frame's spawnBuildingObstacle call pushed: the last
\* last.spawned entries of buildings
Spawned == {i \in 1..Len(buildings) : i > Len(buildings) - last.spawned}

\* C9: a spawnBuildingObstacle call creates one or two obstacles, all at
\* the call's z and in pairwise distinct lanes
C9_SpawnShape ==
  (last.op = "frame" /\ last.spawned > 0) =>
    /\ last.spawned \in {1, 2}
    /\ Cardinality(Spawned) = last.spawned
    /\ \A i \in Spawned :
         /\ buildings[i].z = car.z - spawnDistanceAhead
         /\ buildings[i].x \in {-laneWidth, 0, laneWidth}
    /\ \A i, j \in Spawned : i # j => buildings[i].x # buildings[j].x

\* a frame has spawned two obstacles
C9_Witness ==
  /\ last.op = "frame" /\ last.spawned = 2
  /\ Cardinality({buildings[i].x : i \in Spawned}) = 2

\* C10: a frame awards the near-miss bonus at most once, and only when the
\* frame deltas since the previous award add up to at least 0.5 s
C10_BonusCooldown ==
  (last.op \in FrameOps /\ last.bonuses > 0) =>
    (last.bonuses = 1 /\ last.elapsed >= nearMissCooldownReset)

\* the obstacles that meet the near-miss geometry of lines 850-859
Qualifying ==
  {i \in 1..Len(buildings) :
     /\ nearX(State, buildings[i]) /\ sideProximityZ(State, buildings[i])
     /\ i \notin Overlapping}

\* a frame has awarded one bonus with two obstacles qualifying
C10_Witness ==
  /\ nFrames > 0 /\ last.op = "frame" /\ last.bonuses = 1
  /\ last.elapsed >= nearMissCooldownReset
  /\ Cardinality(Qualifying) >= 2

\* the near-miss cooldown as the collision check of the step's frame reads
\* it, after the tick of line 810
CooldownAtCheck ==
  IF nearMissCooldown > 0 THEN nearMissCooldown - delta' ELSE nearMissCooldown

\* the frame's loop, running down the list, gets to obstacle i: no
\* game-ending overlap sits at a higher index
Reached(i) == isBoosting \/ \A j \in Overlapping : j < i

\* C11 as stated: a frame whose check finds the cooldown expired and some
\* obstacle inside the near-miss zone but outside the collision box adds
\* exactly 50 on top of the frame's own score gain and sets the cooldown
\* to 0.5 s
C11_AsStated ==
  [][(last'.op = "frame" /\ last'.checked /\ CooldownAtCheck <= 0
        /\ Qualifying' # {})
      => (score' = score + ScoreGain(speed, delta') + nearMissBonus
            /\ nearMissCooldown' = nearMissCooldownReset)]_vars

\* C11: the same, for an obstacle the loop gets to before a game-ending
\* collision returns from the check
C11_NearMissExact ==
  [][(last'.op = "frame" /\ last'.checked /\ CooldownAtCheck <= 0
        /\ \E i \in Qualifying' : Reached(i)')
      => (score' = score + ScoreGain(speed, delta') + nearMissBonus
            /\ nearMissCooldown' = nearMissCooldownReset)]_vars

\* a frame has awarded the bonus for an obstacle beside the car
C11_Witness ==
  /\ nFrames > 0 /\ last.op = "frame" /\ last.bonuses = 1 /\ ~gameOver
  /\ Qualifying # {} /\ nearMissCooldown = nearMissCooldownReset

\* the obstacle a frame's bonus was awarded for: the loop runs down the
\* list, so it is the qualifying obstacle listed last
Awarded == CHOOSE i \in Qualifying : \A j \in Qualifying : j <= i

\* C12: a frame whose check ran with the boost on awards no near-miss
\* bonus for an obstacle in the car's path (one the car overlaps laterally
\* under the collision margin, and so is passing through)
C12_NoBonusInPhaseThrough ==
  (last.op = "frame" /\ last.checked /\ isBoosting /\ last.bonuses > 0)
    => ~collisionX(State, buildings[Awarded])

\* the simulation state: everything but the count of undisposed entities
\* and the record of what the last handler did
Sim(s) == [s EXCEPT !.undisposed = 0, !.last = NoLast]

\* the 25 segments resetGame seeds: 625, 575, ..., -575
FreshRoad ==
  [i \in 1..visibleSegments |-> HalfWindow - (i - 1) * roadSegmentLength]

\* C13: from every reachable state a second resetGame changes nothing in
\* the simulation state the first one produced, and that state has the
\* counters zeroed, a full tank, no obstacles and the 25 seeded segments
C13_ResetIdempotent ==
  LET once == resetGame(State)
      twice == resetGame(once)
  IN /\ Sim(twice) = Sim(once)
     /\ once.score = 0 /\ once.distanceTraveled = 0 /\ once.speed = 0
     /\ once.boostFuel = boostMaxFuel
     /\ once.nextObstacleSpawnDistance = initialSpawnDistance
     /\ once.lane = 0 /\ ~once.isBoosting /\ ~once.gameOver
     /\ once.buildings = << >> /\ once.roadSegments = FreshRoad

\* a session has ended with points, obstacles and a car out of lane 0: a
\* state one resetGame changes and a second one does not
C13_Witness ==
  /\ gameOver /\ score > 0 /\ buildings # << >> /\ lane # 0 /\ nFrames > 0
  /\ Sim(resetGame(State)) # Sim(State)
  /\ Sim(resetGame(resetGame(State))) = Sim(resetGame(State))

\* C14: when startGame has run resetGame, nothing of the previous session
\* is left: no obstacle, and no entity removed without being disposed
C14_ResetReleasesAll ==
  last.op = "startGame" => (buildings = << >> /\ undisposed = 0)

\* C15: at most one frame callback is queued, whatever the interleaving
\* of starts, frames and game-ending collisions
C15_OneLoop == Cardinality(pending) <= 1

\* start has been clicked while the loop of a running session had its next
\* frame queued
C15_Witness ==
  /\ last.op = "startGame" /\ nFrames = 0 /\ rafSeq > 1
  /\ pending = {rafSeq}

\* C16: once the game is over, no step before the next startGame changes
\* score, distance, speed, target speed, lane, fuel, boost flag or the car
C16_FrozenAfterEnd ==
  [][(gameOver /\ last'.op # "startGame")
      => (gameOver' /\ UNCHANGED << score, distanceTraveled, speed,
                                     targetSpeed, lane, boostFuel,
                                     isBoosting, car >>)]_vars

\* a key has gone down after the game ended
C16_Witness == gameOver /\ nFrames > 0 /\ last.op = "keydown"

\* C17: after endGame, and after the resetGame of a start, neither loop is
\* marked active, and stopAudio has sent one release to each loop it found
\* active and none to the others
C17_LoopsReleased ==
  (last.hit \/ last.op = "startGame") =>
    /\ ~isBoostSoundActive /\ ~isDriftSynthActive
    /\ last.boostReleases = IF last.stopBoost THEN 1 ELSE 0
    /\ last.driftReleases = IF last.stopDrift THEN 1 ELSE 0

\* a collision has ended the game in the middle of a lane change, the
\* drift loop sounding
C17_Witness ==
  /\ last.hit /\ gameOver /\ last.stopDrift /\ last.driftReleases = 1
  /\ ~isDriftSynthActive

\* C18: a frame of a running session ends with the floor recomputed from
\* the distance the frame started with, and the target speed not below it
C18_TargetAboveFloor ==
  (last.op \in FrameOps /\ last.checked) =>
    /\ minSpeed = baseMinSpeed + (distanceTraveled - speed) \div 10000
    /\ targetSpeed >= minSpeed

\* a frame has ended with the target speed on a floor that the distance
\* has raised above its initial value
C18_Witness ==
  /\ last.op = "frame" /\ last.checked /\ nFrames > 0
  /\ minSpeed > initialMinSpeed /\ targetSpeed = minSpeed

\* C19: a frame of a running session adds its speed, which is positive,
\* to the distance; no step other than a (re)start lowers the distance
C19_DistanceMonotone ==
  [][/\ last'.op # "startGame" => distanceTraveled' >= distanceTraveled
     /\ (last'.op = "frame" /\ last'.checked)
          => (speed' > 0 /\ distanceTraveled' = distanceTraveled + speed')]_vars

\* a frame has advanced a session under way
C19_Witness ==
  /\ last.op = "frame" /\ last.checked /\ nFrames > 0
  /\ speed > 0 /\ distanceTraveled > speed

\* the road's positions, nearest (largest z) first
RoadZ(i) == roadSegments[i]

\* C20: a frame of a running session ends with road segments at distinct
\* positions, neighbours exactly roadSegmentLength apart, together
\* covering at least visibleSegments * roadSegmentLength around the car
C20_RoadCovers ==
  (last.op \in FrameOps /\ last.checked) =>
    /\ Len(roadSegments) >= visibleSegments
    /\ \A i \in 1..(Len(roadSegments) - 1) :
         RoadZ(i) - RoadZ(i + 1) = roadSegmentLength
    /\ RoadZ(Len(roadSegments)) - roadSegmentLength \div 2 <= car.z
    /\ car.z <= RoadZ(1) + roadSegmentLength \div 2

\* a frame of a session under way: the segments seeded at the start have
\* been retired behind the car and the road still covers it
C20_Witness ==
  /\ last.op = "frame" /\ last.checked /\ nFrames > 0
  /\ distanceTraveled > 2 * HalfWindow
  /\ RoadZ(1) < HalfWindow
  /\ Len(roadSegments) >= visibleSegments

\* ------------------------------------------- the coverage step on its own
\* the variables hold the state s
Holds(s) ==
  /\ car = s.car /\ buildings = s.buildings
  /\ roadSegments = s.roadSegments /\ speed = s.speed
  /\ targetSpeed = s.targetSpeed /\ minSpeed = s.minSpeed
  /\ lane = s.lane /\ distanceTraveled = s.distanceTraveled
  /\ nextObstacleSpawnDistance = s.nextObstacleSpawnDistance
  /\ collisionShakeTime = s.collisionShakeTime /\ delta = s.delta
  /\ gameOver = s.gameOver /\ animationFrameId = s.animationFrameId
  /\ score = s.score /\ isBoosting = s.isBoosting
  /\ boostFuel = s.boostFuel /\ nearMissCooldown = s.nearMissCooldown
  /\ crashSound = s.crashSound
  /\ isBoostSoundActive = s.isBoostSoundActive
  /\ isDriftSynthActive = s.isDriftSynthActive
  /\ boostSounding = s.boostSounding /\ pending = s.pending
  /\ rafSeq = s.rafSeq /\ clockRunning = s.clockRunning
  /\ toneRunning = s.toneRunning /\ toneStarting = s.toneStarting
  /\ sinceBonus = s.sinceBonus /\ undisposed = s.undisposed
  /\ last = s.last

\* Lines 1010-1025 of animate as a function of what they read, the car's
\* position and the segment list: the car of a freshly reset session placed
\* at each segment boundary along the seeded road, over the seeded road and
\* over the empty list the else branch is written for.
CoverageInputs ==
  LET fresh == resetGame(Boot)
  IN { [fresh EXCEPT !.car.z = carStartZ - k * roadSegmentLength,
                     !.roadSegments = r] :
         k \in 0..visibleSegments, r \in {<< >>, fresh.roadSegments} }

CoverageInit ==
  /\ \E s \in CoverageInputs : Holds(s)
  /\ nFrames = 0 /\ nKeys = 0 /\ nStarts = 0

\* one execution of lines 1010-1025
Coverage ==
  /\ nFrames < MaxFrames
  /\ Load(ExtendRoad(Began(State, "coverage", "")))
  /\ nFrames' = nFrames + 1
  /\ UNCHANGED << nKeys, nStarts >>

CoverageSpec == CoverageInit /\ [][Coverage]_vars

LeftLaneRnd ==
  [count |-> 0, pick |-> << 0, 0 >>, width |-> << 0, 0 >>, gap |-> 227]

Journeys ==
  { [ups |-> 18, steer |-> "ArrowRight", armD |-> 1000000000,
     boostD |-> 0, early |-> MiddleLaneRnd, rnd |-> MiddleLaneRnd,
     watchX |-> 0, gap |-> 400000, audio |-> TRUE, limit |-> 39],
    [ups |-> 18, steer |-> "ArrowRight", armD |-> 89970000,
     boostD |-> 90010000, early |-> MiddleLaneRnd, rnd |-> LeftLaneRnd,
     watchX |-> -laneWidth, gap |-> 175000, audio |-> FALSE,
     limit |-> 9400] }

JourneyStates == {UnderWay(sc) : sc \in Journeys}

JourneyInit ==
  /\ \E s \in JourneyStates : Holds(s)
  /\ nFrames = 0 /\ nKeys = 0 /\ nStarts = 0

JourneySpec == JourneyInit /\ [][Next]_vars

\* how far the handler moved the spawn threshold
SpawnAdvance == nextObstacleSpawnDistance - last.nextSpawn

\* distances added to the current one when two distances are compared
Further == {1, 49, 50, 99, 100, 1000, 3700000, 4000000}

\* C22: a frame that spawns moves nextObstacleSpawnDistance on by an amount
\* between currentMinInterval and currentMaxInterval of the distance
\* travelled; the two bounds are at least 50 and 100, the lower is not
\* above the upper, and at a greater distance neither bound nor the width
\* of the interval is larger
C22_SpawnInterval ==
  LET D == distanceTraveled
  IN /\ (last.op \in FrameOps /\ last.spawned > 0) =>
          /\ currentMinInterval(D) <= SpawnAdvance
          /\ SpawnAdvance <= currentMaxInterval(D)
          /\ Max(minIntervalFloor, minIntervalBase - D \div 100)
               <= SpawnAdvance
          /\ SpawnAdvance
               <= Max(maxIntervalFloor, maxIntervalBase - D \div 50)
     /\ currentMinInterval(D) >= minIntervalFloor
     /\ currentMaxInterval(D) >= maxIntervalFloor
     /\ currentMinInterval(D) <= currentMaxInterval(D)
     /\ \A d \in Further :
          /\ currentMinInterval(D + d) <= currentMinInterval(D)
          /\ currentMaxInterval(D + d) <= currentMaxInterval(D)
          /\ currentMaxInterval(D + d) - currentMinInterval(D + d)
               <= currentMaxInterval(D) - currentMinInterval(D)

\* a frame has spawned before the intervals reach their floors and moved
\* the threshold by more than the shortest interval
C22_Witness ==
  /\ nFrames > 0 /\ last.op = "frame" /\ last.spawned > 0
  /\ currentMinInterval(distanceTraveled) > minIntervalFloor
  /\ SpawnAdvance > currentMinInterval(distanceTraveled)
  /\ SpawnAdvance < currentMaxInterval(distanceTraveled)

\* the session states: Idle until the first startGame (which requests the
\* first frame), Ended from endGame to the next startGame, Running otherwise
Idle == rafSeq = 0

Ended == gameOver

Running == ~Idle /\ ~Ended

\* C23 as stated: outside Running there is no vehicle, no road segment and
\* no obstacle
C23_AsStated ==
  ~Running => (~car.live /\ roadSegments = << >> /\ buildings = << >>)

\* C23: in Idle there is no vehicle, road segment or obstacle; from the
\* first start on there is a vehicle on at least visibleSegments road
\* segments, and in Ended the vehicle, the road and the obstacle that was
\* hit are still in place
C23_EntitiesBySession ==
  /\ Idle => (~car.live /\ roadSegments = << >> /\ buildings = << >>)
  /\ ~Idle => (car.live /\ Len(roadSegments) >= visibleSegments)
  /\ Ended => (~Idle /\ Overlapping # {})

\* a key has gone down on the game-over screen of a session a collision
\* ended: vehicle, road and obstacles are in place
C23_Witness ==
  /\ Ended /\ nFrames > 0 /\ last.op \in {"keydown", "keyup"}
  /\ car.live /\ Overlapping # {}
  /\ Len(roadSegments) >= visibleSegments

\* the state s with the sound objects present
Audible(s) == [s EXCEPT !.crashSound = TRUE]

\* what the simulation of a frame works on: kinematics, boost, obstacles,
\* road, score, collision outcome and frame scheduling
Simulation(s) ==
  << s.car, s.buildings, s.roadSegments, s.speed, s.targetSpeed, s.minSpeed,
     s.lane, s.distanceTraveled, s.nextObstacleSpawnDistance, s.delta,
     s.gameOver, s.score, s.isBoosting, s.boostFuel, s.nearMissCooldown,
     s.collisionShakeTime, s.animationFrameId, s.pending,
     s.last.hit, s.last.bonuses, s.last.spawned >>

\* C24: while the sound objects are missing no call is made on a sound
\* object and the boost and drift flags stay false; a start without them
\* leaves a running session with its frame queued; and a frame without
\* them ends in the simulation state that the same frame, with the same
\* time step and the same draws, ends in when they are present
C24_SilentSameSimulation ==
  [][/\ ~crashSound' =>
          /\ ~isBoostSoundActive' /\ ~isDriftSynthActive' /\ ~boostSounding'
          /\ last'.triggers = 0
     /\ (last'.op = "startGame" /\ ~crashSound') =>
          (car'.live /\ ~gameOver' /\ Cardinality(pending') = 1)
     /\ (last'.op = "frame" /\ ~crashSound /\ ~gameOver) =>
          \A id \in pending :
            \A heard \in {FrameStep(Audible(State), id, delta', last'.rnd)},
               silent \in {State'} :
              Simulation(heard) = Simulation(silent)]_vars

\* a frame without sound objects has burnt boost fuel and spawned
C24_Witness ==
  /\ nFrames > 0 /\ last.op = "frame" /\ last.checked /\ ~crashSound
  /\ last.boosting /\ boostFuel < last.fuel /\ last.spawned > 0
  /\ last.triggers = 0

\* what a frame computes without Math.random(): motion, speeds, score,
\* boost, road, cooldown and the outcome of the collision check
Kinematics(s) ==
  << s.car, s.roadSegments, s.speed, s.targetSpeed, s.minSpeed,
     s.distanceTraveled, s.delta, s.gameOver, s.score, s.isBoosting,
     s.boostFuel, s.nearMissCooldown, s.last.hit, s.last.bonuses >>

\* C25 as stated: the state a frame ends in is the state any frame from
\* the same state with the same time step ends in, whatever it draws
C25_AsStated ==
  [][last'.op = "frame" =>
       \A id \in pending, rnd \in RndsFor(State) :
         \A drawn \in {FrameStep(State, id, delta', rnd)}, after \in {State'} :
           Simulation(drawn) = Simulation(after)]_vars

\* C25: the state a frame ends in is determined by the state it starts
\* in, the time step and the Math.random() draws of its spawn; a frame
\* that does not spawn ends in the same state whatever the draws would
\* have been, and a frame that spawns differs with the draws only in its
\* new obstacles and the spawn threshold
C25_Deterministic ==
  [][last'.op = "frame" =>
       \A id \in pending :
         \A same \in {FrameStep(State, id, delta', last'.rnd)},
            other \in {FrameStep(State, id, delta', RightLaneRnd)},
            after \in {State'} :
           /\ same = after
           /\ Kinematics(other) = Kinematics(after)
           /\ last'.spawned = 0 => other = after]_vars

\* a frame has spawned two obstacles from its draws
C25_Witness ==
  /\ nFrames > 0 /\ last.op = "frame" /\ last.spawned = 2
  /\ last.rnd \in Rnds /\ ObstacleCount(last.rnd.count) = 2
  /\ last.rnd # RightLaneRnd

\* C26: the speed is never negative and never above maxSpeed *
\* boostSpeedMultiplier; a frame ends with the speed at most maxSpeed, or
\* at most maxSpeed * boostSpeedMultiplier if it found the boost on,
\* whatever the speed was before it
C26_SpeedCapped ==
  /\ 0 <= speed /\ speed <= boostMaxSpeed
  /\ (last.op = "frame" /\ last.checked) =>
       speed <= (IF last.boosting THEN boostMaxSpeed ELSE maxSpeed)
  /\ (last.op = "startGame" /\ last.checked) => speed <= maxSpeed

\* a frame that found the boost off and the speed above maxSpeed has ended
\* with the speed at maxSpeed
C26_Witness ==
  /\ nFrames > 0 /\ last.op = "frame" /\ last.checked
  /\ ~last.boosting /\ last.speed > maxSpeed /\ speed = maxSpeed

\* C27: a frame of a session whose speed has reached the floor does not
\* end with the speed below the floor it has just recomputed
C27_NeverBelowFloor ==
  [][(last'.op = "frame" /\ last'.checked /\ speed >= minSpeed)
      => speed' >= minSpeed']_vars

\* the inputs the two detectors are compared on: the state a frame or a
\* start has left, with the boost off, the car moved on by 0, 1 or 2 units
\* (into and past the near-miss band of an obstacle ahead) or by 150 units
\* (past the obstacles near it, beyond the cleanup distance), and each
\* time step
DetectorInputs ==
  { [Began(State, "check", "") EXCEPT !.isBoosting = FALSE,
                                      !.car.z = @ - a,
                                      !.delta = dt] :
      a \in {0, 1000, 2000, buildingCleanupDistance + roadSegmentLength},
      dt \in Deltas }

\* C28: with the boost off the detector of app.js and the detector of the
\* earlier variant leave the same state: the same obstacles retired, the
\* same session ended, the same bonus and cooldown
C28_DetectorsAgree ==
  (car.live /\ last.op \in FrameOps) =>
    \A in \in DetectorInputs :
      checkCollisionsAndNearMisses(in) = checkCollisionsAndNearMissesEarlier(in)

\* a state from which the detector ends the session on one input, awards
\* the bonus on another and retires an obstacle on a third
C28_Witness ==
  /\ car.live /\ last.op = "frame" /\ nFrames > 0 /\ ~gameOver
  /\ \E in \in DetectorInputs : checkCollisionsAndNearMisses(in).last.hit
  /\ \E in \in DetectorInputs :
       LET out == checkCollisionsAndNearMisses(in)
       IN out.last.bonuses = 1 /\ ~out.gameOver
  /\ \E in \in DetectorInputs :
       Len(checkCollisionsAndNearMisses(in).buildings) < Len(buildings)

\* C29: no triggerAttack reaches the boost synth while it sounds and no
\* triggerRelease while it does not, so attacks and releases alternate,
\* an attack first; isBoostSoundActive tells whether the synth sounds; and
\* a frame that has the sound objects ends with isBoostSoundActive equal
\* to isBoosting
C29_BoostSoundEdges ==
  /\ last.misfires = 0
  /\ boostSounding = isBoostSoundActive
  /\ (last.op \in FrameOps /\ crashSound) => isBoostSoundActive = isBoosting

\* a frame has released the boost loop that earlier frames had started
\* and kept sounding
C29_Witness ==
  /\ nFrames > 0 /\ last.op = "frame" /\ last.checked /\ crashSound
  /\ last.sounding /\ ~boostSounding /\ ~isBoosting /\ last.triggers > 0

\* ------------------------------------------------ order of the road list
\* the farthest segment the frame's coverage step found: the one recorded
\* when the frame began, or the last seeded one when startGame's resetGame
\* rebuilt the road before its frame
FarthestFound ==
  IF last.op = "startGame" THEN FreshRoad[visibleSegments]
  ELSE last.farthest

\* the positions in the list of the segments beyond FarthestFound
Appended == {i \in 1..Len(roadSegments) : RoadZ(i) < FarthestFound}

\* C30: a frame of a running session ends with the road segments in
\* strictly descending order of position, the last one no nearer than any
\* other, and with at most one segment beyond the one that was farthest
\* when its coverage step ran; that segment is last in the list and lies
\* exactly roadSegmentLength beyond it
C30_RoadSorted ==
  (last.op \in FrameOps /\ last.checked) =>
    /\ \A i \in 1..(Len(roadSegments) - 1) : RoadZ(i) > RoadZ(i + 1)
    /\ \A i \in 1..Len(roadSegments) :
         RoadZ(Len(roadSegments)) <= RoadZ(i)
    /\ Cardinality(Appended) <= 1
    /\ \A i \in Appended :
         /\ i = Len(roadSegments)
         /\ RoadZ(i) = FarthestFound - roadSegmentLength

\* a frame requested by requestAnimationFrame found the car within half
\* the visible window of the farthest segment and appended one
C30_Witness ==
  /\ last.op = "frame" /\ last.checked /\ nFrames > 0
  /\ Appended # {}
  /\ car.z < last.farthest + HalfWindow
  /\ RoadZ(Len(roadSegments)) = last.farthest - roadSegmentLength
  /\ Len(roadSegments) > visibleSegments

\* ------------------------------------------------- position and distance
\* C39: whenever there is a vehicle, its z position and the distance
\* counter add up to the start position carStartZ
C39_Lockstep ==
  car.live => car.z + distanceTraveled = carStartZ

\* a second session, started over one that was under way, has run a frame
\* of its own
C39_Witness ==
  /\ nStarts > 0 /\ nFrames > 0
  /\ last.op = "frame" /\ last.checked
  /\ car.live /\ distanceTraveled > 0
  /\ undisposed > 0

\* ------------------------------------------------ the road is never empty
\* the positions of the segments in the list
RoadSet(segments) == {segments[i] : i \in 1..Len(segments)}

\* C38: a frame of a running session never finds the segment list empty
\* in its coverage step (it does not take the seeding branch), leaves it
\* non-empty, and the segments it retires all lie behind the vehicle; the
\* segment that was farthest ahead when a queued frame began is still in
\* the list when the frame ends
C38_RoadNeverEmpty ==
  [][(last'.op \in FrameOps /\ last'.checked) =>
       /\ ~last'.seeded
       /\ roadSegments' # << >>
       /\ last'.op = "frame" =>
            /\ roadSegments # << >>
            /\ roadSegments[Len(roadSegments)] \in RoadSet(roadSegments')
            /\ \A z \in RoadSet(roadSegments) \ RoadSet(roadSegments') :
                 z > car'.z]_vars

\* a queued frame has retired a segment
C38_Witness ==
  /\ last.op = "frame" /\ last.checked /\ nFrames > 0
  /\ last.retired > 0 /\ ~last.seeded
  /\ roadSegments # << >>
  /\ car.z < RoadZ(1)

\* ------------------------------------------------- the spawner keeps up
\* C36: the distance travelled is never beyond the spawn threshold when a
\* handler has finished; a queued frame moves the threshold at most once,
\* by at least the shortest interval and only when it spawns, and what it
\* spawns stands at one z; the speed, which is the advance of one frame,
\* is at most maxSpeed * boostSpeedMultiplier, which is below that interval
C36_NoBacklog ==
  /\ distanceTraveled <= nextObstacleSpawnDistance
  /\ speed <= boostMaxSpeed
  /\ boostMaxSpeed < minIntervalFloor
  /\ last.op = "frame" =>
       /\ last.spawned = 0 => SpawnAdvance = 0
       /\ last.spawned > 0 =>
            /\ SpawnAdvance >= minIntervalFloor
            /\ SpawnAdvance <= currentMaxInterval(distanceTraveled)
            /\ distanceTraveled > last.nextSpawn
            /\ distanceTraveled - speed <= last.nextSpawn
            /\ Cardinality({buildings[i].z : i \in Spawned}) = 1

\* a queued frame has passed the threshold, spawned and moved the threshold
\* beyond the distance travelled
C36_Witness ==
  /\ nFrames > 0 /\ last.op = "frame" /\ last.spawned > 0
  /\ distanceTraveled > last.nextSpawn
  /\ distanceTraveled < nextObstacleSpawnDistance
  /\ speed > maxSpeed

\* ------------------------------------------------ the target speed's cap
\* C34: the target speed is never above maxSpeed, and neither is the
\* speed floor
C34_TargetCapped ==
  /\ targetSpeed <= maxSpeed
  /\ minSpeed <= maxSpeed

\* ------------------------------------------- what a new session starts from
\* the values the claim gives for the state resetGame leaves
FreshStart(s) ==
  /\ s.targetSpeed = baseMinSpeed
  /\ s.minSpeed = baseMinSpeed
  /\ s.nearMissCooldown <= 0
  /\ s.collisionShakeTime <= 0

\* C33: whatever state a click on start finds, the state its resetGame
\* call leaves has targetSpeed and minSpeed at baseMinSpeed and neither
\* the near-miss cooldown nor the collision shake running
C33_FreshStart ==
  [][last'.op = "startGame" =>
       \A fresh \in {resetGame(State)} : FreshStart(fresh)]_vars

\* --------------------------------------------- sessions about to pass
\* Two more sessions under way, computed like the others, neither of them
\* boosting at any time: one crawling at the speed floor in the left-hand
\* lane that has come level with an obstacle in the middle lane, and one
\* at speed 9.5 (17 presses of ArrowUp) in the right-hand lane that is
\* 4.5 short of an obstacle in that lane.
Encounters ==
  { [ups |-> 0, steer |-> "ArrowLeft", armD |-> 0, boostD |-> 1000000000,
     early |-> NoRnd, rnd |-> MiddleLaneRnd, watchX |-> 0,
     gap |-> 4500, audio |-> TRUE, limit |-> 600],
    [ups |-> 17, steer |-> "ArrowRight", armD |-> 4000000,
     boostD |-> 1000000000, early |-> MiddleLaneRnd, rnd |-> RightLaneRnd,
     watchX |-> laneWidth, gap |-> 10000, audio |-> FALSE, limit |-> 900] }

EncounterStates == {UnderWay(sc) : sc \in Encounters}

EncounterInit ==
  /\ \E s \in EncounterStates : Holds(s)
  /\ nFrames = 0 /\ nKeys = 0 /\ nStarts = 0

EncounterSpec == EncounterInit /\ [][Next]_vars

\* ----------------------------------------------- bonuses of one obstacle
\* C35: no obstacle has triggered more than one near-miss bonus
C35_OneBonusPerObstacle ==
  \A i \in 1..Len(buildings) : buildings[i].awards <= 1

\* -------------------------------------------- the tank empties in a hit
\* C32: a queued frame that began boosting, emptied the tank and left the
\* car overlapping an obstacle on both axes has ended the session in its
\* collision check, the boost flag already cleared
C32_EmptyTankEnds ==
  (last.op = "frame" /\ last.checked /\ last.boosting
     /\ boostFuel = 0 /\ Overlapping # {}) =>
    /\ ~isBoosting
    /\ last.hit
    /\ gameOver

\* a frame began boosting with fuel left, burned the last of it while the
\* car was inside an obstacle, and ended the session
C32_Witness ==
  /\ nFrames > 0 /\ last.op = "frame" /\ last.checked
  /\ last.boosting /\ last.fuel > 0 /\ boostFuel = 0
  /\ Overlapping # {}
  /\ last.hit /\ gameOver

\* ------------------------------------------------- getting past an obstacle
\* building b is in the car's path: the two overlap laterally under the
\* 0.9 margin, at the lateral position x
InPath(x, b) == Abs(x - b.x) * 20 < (carWidth + b.width) * 9

\* C31: a queued frame without boost that takes the car from before an
\* obstacle in its path to beyond it ends the session
C31_NoWayPast ==
  [][(last'.op = "frame" /\ ~isBoosting /\ ~isBoosting' /\ ~gameOver) =>
       \A i \in 1..Len(buildings) :
         (/\ InPath(car.x, buildings[i]) /\ InPath(car'.x, buildings[i])
          /\ buildings[i].z < car.z
          /\ buildings[i].z > car'.z) => gameOver']_vars

\* ------------------------------------------- spacing of the spawn events
\* the largest depth an obstacle can have (3.5 + 1.5)
MaxDepth == buildingMinWidth + buildingWidthRange

\* C37: two obstacles in the list that were made by the spawns of
\* different frames stand more than MaxDepth apart along the road
C37_EventsApart ==
  \A i, j \in 1..Len(buildings) :
    buildings[i].born # buildings[j].born =>
      Abs(buildings[i].z - buildings[j].z) > MaxDepth

\* a queued frame has spawned while an obstacle of an earlier spawn is
\* still in the list
C37_Witness ==
  /\ nFrames > 0 /\ last.op = "frame" /\ last.spawned > 0
  /\ \E i \in Spawned : \E j \in 1..Len(buildings) :
       /\ buildings[j].born < buildings[i].born
       /\ buildings[i].z < buildings[j].z

====
